---------------------------- MODULE Spec2Model ----------------------------
(* Peripheral I/O layer of chip8-pico: the SH1106 display driver            *)
(* (src/src/screen/sh1106.rs) and the 4x4 GPIO keypad scanner               *)
(* (src/src/keypad/keypad.rs).                                              *)
(*                                                                          *)
(* Both drivers are sequences of fallible pin and bus operations.  A call   *)
(* is modelled by the sequence of primitive operations its code performs    *)
(* (the "program" of the call) and a position in it; every primitive either *)
(* succeeds or fails, and a failure is propagated the way the code's `?`    *)
(* propagates it.  No other call starts while one is in progress.           *)
(* The row encoding of the display driver (scale) is also applied on its    *)
(* own, to every byte value.                                                *)
EXTENDS Integers, Sequences, FiniteSets, TLC

VARIABLES
    \* ---- display driver (struct Sh1106) and the panel it drives
    buf,      \* self.buf: the logical framebuffer, 32 rows of 8 bytes
    cs,       \* level of the chip-select pin
    mode,     \* level of the mode-select pin (0 = command, 1 = data)
    reset,    \* level of the reset pin
    panel,    \* panel memory: column address -> 16-byte column, or Unknown
    addr,     \* the panel's column address register
    pc,       \* index, in the program of cur, of the next primitive operation
    ret,      \* result of the display call
    cur,      \* the display call in progress (or the last one)
    prev,     \* the display call completed before cur
    nfaults,  \* I/O faults injected so far on the display side
    \* ---- keypad scanner (struct GpioKeypad)
    col,      \* levels of the four column output pins
    keymap,   \* self.keymap
    kpc,      \* position inside read_key
    kidx,     \* pin index inside a four-pin loop, or column under test
    rows,     \* row levels read so far by the current read()
    kres,     \* result of the scanning closure, kept while columns are restored
    kret,     \* result returned by read_key
    klog,     \* pin and delay operations issued by the current read_key
    kentry,   \* levels of the four columns on entry to the current call
    kpre,     \* what the idle pre-check of the current read_key read
    khot,     \* first one-hot pattern read by the resolving scan: <<row, column>>
    kfault,   \* the kinds of operation that failed in the current call
    kfailed,  \* the positions in klog of the operations that failed, in order
    \* ---- the row encoding of the display driver, applied on its own
    sbyte,    \* the byte handed to scale
    scaled,   \* what scale returned for it, <<>> before the call
    srow,     \* the framebuffer row handed to the row encoding
    payload   \* the 16 bytes made of it, <<>> before the call

svars == <<buf, cs, mode, reset, panel, addr, pc, ret, cur, prev, nfaults>>
kvars == <<col, keymap, kpc, kidx, rows, kres, kret, klog, kentry, kpre, khot, kfault, kfailed>>
pvars == <<sbyte, scaled, srow, payload>>
vars == <<svars, kvars, pvars>>

-----------------------------------------------------------------------------
(* u8 arithmetic *)

Pow2(n) == 2 ^ n

Bit(b, k) == (b \div Pow2(k)) % 2

\* mutant of BXor: `|=` written for `^=`
BXor_as_or(a, b) ==
    LET x(k) == (IF Bit(a, k) + Bit(b, k) > 0 THEN 1 ELSE 0) * Pow2(k)
    IN  x(0) + x(1) + x(2) + x(3) + x(4) + x(5) + x(6) + x(7)

\* a ^ b on u8
BXor(a, b) ==
    LET x(k) == ((Bit(a, k) + Bit(b, k)) % 2) * Pow2(k)
    IN  x(0) + x(1) + x(2) + x(3) + x(4) + x(5) + x(6) + x(7)

\* a & b on u8
BAnd(a, b) ==
    LET x(k) == (Bit(a, k) * Bit(b, k)) * Pow2(k)
    IN  x(0) + x(1) + x(2) + x(3) + x(4) + x(5) + x(6) + x(7)

\* a | b on u8
BOr(a, b) == a + b - BAnd(a, b)

\* a >> n on u8
Shr(a, n) == a \div Pow2(n)

\* a << n on u8: the bits shifted out are lost
Shl(a, n) == (a * Pow2(n)) % 256

\* u8::reverse_bits
reverse_bits(b) ==
    LET x(k) == Bit(b, k) * Pow2(7 - k)
    IN  x(0) + x(1) + x(2) + x(3) + x(4) + x(5) + x(6) + x(7)

-----------------------------------------------------------------------------
(* Display driver: the primitive operations of each function, in order.    *)
(* Every fallible call of sh1106.rs is followed by `?` or is the function's *)
(* tail expression, so a call is the sequence of its primitives and stops   *)
(* at the first one that fails (see Fail).                                  *)

Item(io, v, d) == [io |-> io, v |-> v, d |-> d]

chip_select == <<Item("cs", 0, <<>>)>>

chip_deselect == <<Item("cs", 1, <<>>)>>

set_mode_cmd == <<Item("mode", 0, <<>>)>>

set_mode_data == <<Item("mode", 1, <<>>)>>

\* mutant of write: chip-select asserted only after the bytes went out
write_select_late(bytes) == <<Item("spi", 0, bytes)>> \o chip_select \o chip_deselect

write(bytes) == chip_select \o <<Item("spi", 0, bytes)>> \o chip_deselect

cmd(c) == set_mode_cmd \o write(<<c>>)

data(bytes) == set_mode_data \o write(bytes)

multibyte_cmd(c, param) == set_mode_cmd \o write(<<c, param>>)

set_display_start(start) == multibyte_cmd(220, start)

set_vertical_addressing == cmd(33)

set_contrast(contrast) == multibyte_cmd(129, contrast)

display_on == cmd(175)

set_display_offset(offset) == multibyte_cmd(211, offset)

set_dclk_osc_freq(setting) == multibyte_cmd(213, setting)

set_pre_charge_period(setting) == multibyte_cmd(217, setting)

set_vcom_deselect_level(level) == multibyte_cmd(216, level)

set_lower_col_addr(c) == cmd(BAnd(c, 15))

\* 0x10 | col & 0x7: `&` binds tighter than `|`
set_higher_col_addr(c) == cmd(BOr(16, BAnd(c, 7)))

\* mutant of set_col: the high part of the address sent first
set_col_high_first(c) == set_higher_col_addr(Shr(c, 4)) \o set_lower_col_addr(c)

set_col(c) == set_lower_col_addr(c) \o set_higher_col_addr(Shr(c, 4))

Zero16 == [i \in 1..16 |-> 0]

ZeroRow == [i \in 0..7 |-> 0]

ZeroBuf == [r \in 0..31 |-> ZeroRow]

RECURSIVE clear_loop(_)
clear_loop(c) ==
    IF c >= 64 THEN <<>>
    ELSE set_col(c) \o data(Zero16) \o clear_loop(c + 1)

\* mutant of clear: the framebuffer is not reset
clear_keeps_buf == clear_loop(0)

clear == clear_loop(0) \o <<Item("bufclear", 0, <<>>)>>

\* mutant of init: the display is switched on before the panel is cleared
init_on_before_clear ==
    <<Item("reset", 1, <<>>), Item("reset", 0, <<>>), Item("reset", 1, <<>>)>>
    \o set_display_start(0)
    \o set_contrast(128)
    \o set_vertical_addressing
    \o set_dclk_osc_freq(65)
    \o set_pre_charge_period(34)
    \o set_vcom_deselect_level(53)
    \o set_display_offset(96)
    \o display_on
    \o clear

init ==
    <<Item("reset", 1, <<>>), Item("reset", 0, <<>>), Item("reset", 1, <<>>)>>
    \o set_display_start(0)
    \o set_contrast(128)
    \o set_vertical_addressing
    \o set_dclk_osc_freq(65)
    \o set_pre_charge_period(34)
    \o set_vcom_deselect_level(53)
    \o set_display_offset(96)
    \o clear
    \o display_on

SCALED_NIBBLE == <<0, 3, 12, 15, 48, 51, 60, 63, 192, 195, 204, 207, 240, 243, 252, 255>>

\* mutant of scale: the two expanded nibbles returned in the other order
scale_swapped(byte) ==
    LET b == reverse_bits(byte)
        msb == BAnd(Shr(b, 4), 15)
        lsb == BAnd(b, 15)
    IN  <<SCALED_NIBBLE[msb + 1], SCALED_NIBBLE[lsb + 1]>>

scale(byte) ==
    LET b == reverse_bits(byte)
        msb == BAnd(Shr(b, 4), 15)
        lsb == BAnd(b, 15)
    IN  <<SCALED_NIBBLE[lsb + 1], SCALED_NIBBLE[msb + 1]>>

\* self.buf[yidx].map(Self::scale) transmuted to [u8; 16]: the eight pairs in order
draw(row) == [i \in 1..16 |-> scale(row[(i - 1) \div 2])[((i - 1) % 2) + 1]]

\* mutant of xor_updates: the spilled bits shifted by offset, not by 8 - offset
xor_updates_shift(x, scan) ==
    LET offset == x % 8
        xidx == (x % 64) \div 8
    IN  IF offset = 0 THEN <<<<xidx, scan>>>>
        ELSE <<<<xidx, Shr(scan, offset)>>, <<(xidx + 1) % 8, Shl(scan, offset)>>>>

\* the ^= updates of one sprite byte, as <<byte column, value>> pairs in order
xor_updates(x, scan) ==
    LET offset == x % 8
        xidx == (x % 64) \div 8
    IN  IF offset = 0 THEN <<<<xidx, scan>>>>
        ELSE <<<<xidx, Shr(scan, offset)>>, <<(xidx + 1) % 8, Shl(scan, 8 - offset)>>>>

RECURSIVE apply_updates(_, _)
apply_updates(row, ups) ==
    IF ups = <<>> THEN row
    ELSE apply_updates([row EXCEPT ![Head(ups)[1]] = BXor(@, Head(ups)[2])], Tail(ups))

\* mutant of xor_row: the column address computed without the 31 - row flip
xor_row_no_flip(b, x, ypos, scan) ==
    LET yidx == ypos
        phys == 2 * (ypos % 32)
        ups == xor_updates(x, scan)
        upd == [i \in 1..Len(ups) |-> Item("bufxor", yidx, ups[i])]
    IN  IF yidx > 31 THEN upd
        ELSE LET d == draw(apply_updates(b[yidx], ups))
             IN  upd \o set_col(phys) \o data(d) \o set_col(phys + 1) \o data(d)

\* mutant of xor_row: the row drawn as it was before the update
xor_row_stale(b, x, ypos, scan) ==
    LET yidx == ypos
        phys == 2 * (31 - (ypos % 32))
        ups == xor_updates(x, scan)
        upd == [i \in 1..Len(ups) |-> Item("bufxor", yidx, ups[i])]
    IN  IF yidx > 31 THEN upd
        ELSE LET d == draw(b[yidx])
             IN  upd \o set_col(phys) \o data(d) \o set_col(phys + 1) \o data(d)

\* one iteration of the loop of xor, for sprite byte scan at row index ypos:
\* the buffer updates, then the row drawn at two adjacent column addresses.
\* An index outside self.buf panics at the first update.
xor_row(b, x, ypos, scan) ==
    LET yidx == ypos
        phys == 2 * (31 - (ypos % 32))
        ups == xor_updates(x, scan)
        upd == [i \in 1..Len(ups) |-> Item("bufxor", yidx, ups[i])]
    IN  IF yidx > 31 THEN upd
        ELSE LET d == draw(apply_updates(b[yidx], ups))
             IN  upd \o set_col(phys) \o data(d) \o set_col(phys + 1) \o data(d)

RECURSIVE xor_loop(_, _, _, _)
xor_loop(b, x, ypos, sprite) ==
    IF sprite = <<>> THEN <<>>
    ELSE LET scan == Head(sprite)
             b2 == IF ypos > 31 THEN b
                   ELSE [b EXCEPT ![ypos] = apply_updates(@, xor_updates(x, scan))]
         IN  xor_row(b, x, ypos, scan) \o xor_loop(b2, x, ypos + 1, Tail(sprite))

xor(b, x, y, sprite) == xor_loop(b, x, y, sprite)

-----------------------------------------------------------------------------
(* Display driver: state and steps *)

\* I/O faults the environment may inject in one behaviour
MaxFaults == 1

\* contents of a panel column that was never written, or the address register
\* of a panel whose state is no longer known
Unknown == <<>>

UnknownAddr == 0 - 1

UnknownPanel == [a \in 0..127 |-> Unknown]

NoCall == [op |-> "none", x |-> 0, y |-> 0, sprite |-> <<>>, before |-> ZeroBuf]

FailedCall == [op |-> "failed", x |-> 0, y |-> 0, sprite |-> <<>>, before |-> ZeroBuf]

Call(op, x, y, sprite) == [op |-> op, x |-> x, y |-> y, sprite |-> sprite, before |-> buf]

\* the primitive operations of a call, from the framebuffer it starts with
ProgOf(c) ==
    CASE c.op = "init" -> init
      [] c.op = "clear" -> clear
      [] c.op = "xor" -> xor(c.before, c.x, c.y, c.sprite)
      [] OTHER -> <<>>

Prog == ProgOf(cur)

\* the primitives of the current call that have completed, in order
Done == SubSeq(Prog, 1, pc - 1)

\* Sh1106::new: an all-zero framebuffer and no call yet
ScreenNew ==
    /\ buf = ZeroBuf
    /\ panel = UnknownPanel
    /\ addr = 0
    /\ pc = 1
    /\ ret = "none"
    /\ cur = NoCall
    /\ prev = NoCall
    /\ nfaults = 0

\* the pins are as the hardware left them
ScreenInit ==
    /\ cs \in {0, 1}
    /\ mode \in {0, 1}
    /\ reset \in {0, 1}
    /\ ScreenNew

\* the display side while only the keypad is exercised
ScreenUnused ==
    /\ cs = 0
    /\ mode = 0
    /\ reset = 0
    /\ ScreenNew

Running == ret = "running"

\* the caller may issue a call: main.rs calls init once, right after new, and
\* unwraps its result; it ignores the result of xor
Ready == ret \notin {"none", "running", "panic"} /\ ~(cur.op = "init" /\ ret # "ok")

Begin(c) ==
    /\ prev' = IF ret = "ok" THEN cur ELSE IF ret = "none" THEN NoCall ELSE FailedCall
    /\ cur' = c
    /\ pc' = 1
    /\ ret' = IF c.op = "xor" /\ c.sprite = <<>> THEN "ok" ELSE "running"
    /\ UNCHANGED <<buf, cs, mode, reset, panel, addr, nfaults>>
    /\ UNCHANGED <<kvars, pvars>>

CallInit ==
    /\ ret = "none"
    /\ Begin(Call("init", 0, 0, <<>>))

CallClear ==
    /\ Ready
    /\ Begin(Call("clear", 0, 0, <<>>))

CallXor(x, y, sprite) ==
    /\ Ready
    /\ Begin(Call("xor", x, y, sprite))

\* the primitive about to run
Next_item == Prog[pc]

\* the primitive succeeded: go on to the next one; the call returns Ok after the last
Advance ==
    /\ pc' = pc + 1
    /\ ret' = IF pc + 1 > Len(Prog) THEN "ok" ELSE "running"
    /\ UNCHANGED <<cur, prev>>
    /\ UNCHANGED <<kvars, pvars>>

\* OutputPin::set_high / set_low succeeded
StepPin ==
    /\ Running
    /\ Next_item.io \in {"cs", "mode", "reset"}
    /\ cs' = IF Next_item.io = "cs" THEN Next_item.v ELSE cs
    /\ mode' = IF Next_item.io = "mode" THEN Next_item.v ELSE mode
    /\ reset' = IF Next_item.io = "reset" THEN Next_item.v ELSE reset
    /\ Advance
    /\ UNCHANGED <<buf, panel, addr, nfaults>>

\* the panel's reaction to the bytes of one bus write while it is selected:
\* pixel data fills the addressed column, commands 0x00..0x0F and 0x10..0x17
\* set the low and the high part of the column address
PanelWrite(pn, a, m, bytes) ==
    IF a = UnknownAddr THEN [panel |-> pn, addr |-> a]
    ELSE IF m = 1 THEN [panel |-> [pn EXCEPT ![a] = bytes], addr |-> a]
    ELSE IF Len(bytes) = 1 /\ bytes[1] \in 0..15
         THEN [panel |-> pn, addr |-> (a \div 16) * 16 + bytes[1]]
    ELSE IF Len(bytes) = 1 /\ bytes[1] \in 16..23
         THEN [panel |-> pn, addr |-> (bytes[1] - 16) * 16 + (a % 16)]
    ELSE [panel |-> pn, addr |-> a]

\* self.spi.write(data) succeeded
StepSpi ==
    /\ Running
    /\ Next_item.io = "spi"
    /\ LET w == IF cs = 0 THEN PanelWrite(panel, addr, mode, Next_item.d)
                ELSE [panel |-> panel, addr |-> addr]
       IN  panel' = w.panel /\ addr' = w.addr
    /\ Advance
    /\ UNCHANGED <<buf, cs, mode, reset, nfaults>>

\* mutant of StepBufXor: the row index wrapped into the framebuffer
StepBufXor_wrapped ==
    /\ Running
    /\ Next_item.io = "bufxor"
    /\ buf' = [buf EXCEPT ![Next_item.v % 32][Next_item.d[1]] = BXor(@, Next_item.d[2])]
    /\ Advance
    /\ UNCHANGED <<cs, mode, reset, panel, addr, nfaults>>

\* self.buf[yidx][xidx] ^= value; an index outside the array panics
StepBufXor ==
    /\ Running
    /\ Next_item.io = "bufxor"
    /\ IF Next_item.v > 31
       THEN /\ ret' = "panic"
            /\ UNCHANGED <<buf, pc, cur, prev>>
            /\ UNCHANGED <<kvars, pvars>>
       ELSE /\ buf' = [buf EXCEPT ![Next_item.v][Next_item.d[1]] = BXor(@, Next_item.d[2])]
            /\ Advance
    /\ UNCHANGED <<cs, mode, reset, panel, addr, nfaults>>

\* self.buf = [[0; 8]; 32]
StepBufClear ==
    /\ Running
    /\ Next_item.io = "bufclear"
    /\ buf' = ZeroBuf
    /\ Advance
    /\ UNCHANGED <<cs, mode, reset, panel, addr, nfaults>>

\* map_err(|_| Error::...): the error of a failed primitive
ErrorOf(io) ==
    CASE io = "cs" -> "ChipSelect"
      [] io = "mode" -> "Mode"
      [] io = "reset" -> "Reset"
      [] io = "spi" -> "Spi"

\* mutant of Propagate: the error is dropped and the call goes on
Propagate_dropped(io) == [ret |-> "running", pc |-> pc + 1]

\* `?` on the result of a primitive that failed: the call returns the error
\* at once, without running what follows
Propagate(io) == [ret |-> ErrorOf(io), pc |-> pc]

\* mutant of Fail: the framebuffer is put back as it was before the call
Fail_rollback ==
    /\ Running
    /\ nfaults < MaxFaults
    /\ Next_item.io \in {"cs", "mode", "reset", "spi"}
    /\ nfaults' = nfaults + 1
    /\ ret' = Propagate(Next_item.io).ret
    /\ pc' = Propagate(Next_item.io).pc
    /\ UNCHANGED <<cs, mode, reset>>
    /\ panel' = UnknownPanel
    /\ addr' = UnknownAddr
    /\ buf' = cur.before
    /\ UNCHANGED <<cur, prev>>
    /\ UNCHANGED <<kvars, pvars>>

\* a pin write or a bus write failed.  A pin write that fails leaves the level
\* as it was; after a failed call nothing is known of the panel.
Fail ==
    /\ Running
    /\ nfaults < MaxFaults
    /\ Next_item.io \in {"cs", "mode", "reset", "spi"}
    /\ nfaults' = nfaults + 1
    /\ ret' = Propagate(Next_item.io).ret
    /\ pc' = Propagate(Next_item.io).pc
    /\ UNCHANGED <<cs, mode, reset>>
    /\ panel' = UnknownPanel
    /\ addr' = UnknownAddr
    /\ UNCHANGED <<buf, cur, prev>>
    /\ UNCHANGED <<kvars, pvars>>

\* the xor calls the model issues: <<x, y, sprite>>
XorCalls == {<<0, 0, <<255>>>>, <<60, 30, <<147, 15>>>>, <<203, 5, <<0, 0>>>>, <<5, 31, <<129, 36>>>>}

-----------------------------------------------------------------------------
(* Keypad scanner *)

KEYMAP == <<<<1, 2, 3, 15>>, <<4, 5, 6, 14>>, <<7, 8, 9, 13>>, <<10, 0, 11, 12>>>>

\* keymaps handed to with_keymap
CustomKeymaps ==
    { <<<<0, 1, 2, 3>>, <<4, 5, 6, 7>>, <<8, 9, 10, 11>>, <<12, 13, 14, 15>>>>,
      <<<<5, 5, 5, 5>>, <<5, 5, 5, 5>>, <<5, 5, 5, 9>>, <<5, 5, 5, 5>>>> }

with_keymap(self_keymap, km) == km

\* results of a keypad call
Res(tag, key, err) == [tag |-> tag, key |-> key, err |-> err]

NoRes == Res("none", 0, "")

Pending == Res("running", 0, "")

OkUnit == Res("Ok", 0, "")

OkNone == Res("None", 0, "")

OkSome(key) == Res("Some", key, "")

Err(e) == Res("Err", 0, e)

AllHigh == [c \in 0..3 |-> TRUE]

\* GpioKeypad::new: no call yet
KeypadNew ==
    /\ kpc = "new"
    /\ kidx = 0
    /\ rows = <<>>
    /\ kres = NoRes
    /\ kret = NoRes
    /\ klog = <<>>
    /\ kentry = col
    /\ kpre = "unread"
    /\ khot = <<>>
    /\ kfault = {}
    /\ kfailed = <<>>

\* new, optionally followed by with_keymap; the column pins are as the hardware
\* left them
KeypadInit ==
    /\ col \in [0..3 -> BOOLEAN]
    /\ keymap \in {KEYMAP} \cup {with_keymap(KEYMAP, km) : km \in CustomKeymaps}
    /\ KeypadNew

\* the keypad side while only the display is exercised
KeypadUnused ==
    /\ col = [c \in 0..3 |-> FALSE]
    /\ keymap = KEYMAP
    /\ KeypadNew

\* a call returns r
KReturn(r) ==
    /\ kpc' = "idle"
    /\ kret' = r
    /\ kidx' = 0
    /\ rows' = <<>>
    /\ kres' = NoRes

KStart(at) ==
    /\ kpc' = at
    /\ kidx' = 0
    /\ rows' = <<>>
    /\ kres' = NoRes
    /\ kret' = Pending
    /\ klog' = <<>>
    /\ kentry' = col
    /\ kpre' = "unread"
    /\ khot' = <<>>
    /\ kfault' = {}
    /\ kfailed' = <<>>
    /\ UNCHANGED <<col, keymap>>
    /\ UNCHANGED <<svars, pvars>>

\* main.rs: keypad.init().ok().unwrap() right after new
KCallInit ==
    /\ kpc = "new"
    /\ KStart("init")

\* read_key is called once init has returned Ok, any number of times
KCallReadKey ==
    /\ kpc = "idle"
    /\ KStart("pre")

Logged(e) == klog' = Append(klog, e)

Faulted(kind) ==
    /\ kfault' = kfault \cup {kind}
    /\ kfailed' = Append(kfailed, Len(klog) + 1)

\* init: set!(1 = col1, col2, col3, col4), one pin
KInitSet ==
    /\ kpc = "init"
    /\ col' = [col EXCEPT ![kidx] = TRUE]
    /\ Logged(<<"set", kidx, 1>>)
    /\ IF kidx = 3 THEN KReturn(OkUnit)
       ELSE /\ kidx' = kidx + 1
            /\ UNCHANGED <<kpc, rows, kres, kret>>
    /\ UNCHANGED <<keymap, kentry, kpre, khot, kfault, kfailed>>
    /\ UNCHANGED <<svars, pvars>>

\* a failed set_high in init: `?` returns Err(WritePin); main.rs then panics
KInitSetFail ==
    /\ kpc = "init"
    /\ UNCHANGED col
    /\ Logged(<<"set", kidx, 1>>)
    /\ Faulted("WritePin")
    /\ kpc' = "halt"
    /\ kret' = Err("WritePin")
    /\ UNCHANGED <<kidx, rows, kres>>
    /\ UNCHANGED <<keymap, kentry, kpre, khot>>
    /\ UNCHANGED <<svars, pvars>>

\* the four patterns try_rows decodes, as the index of the row that is high
OneHot(r) == [i \in 1..4 |-> i = r + 1]

\* mutant of try_rows: the keymap indexed [col][row]
try_rows_transposed(km, pattern, c) ==
    IF pattern = OneHot(0) THEN OkSome(km[c + 1][1])
    ELSE IF pattern = OneHot(1) THEN OkSome(km[c + 1][2])
    ELSE IF pattern = OneHot(2) THEN OkSome(km[c + 1][3])
    ELSE IF pattern = OneHot(3) THEN OkSome(km[c + 1][4])
    ELSE OkNone

\* try_rows: decode the pattern read() returned for column c
try_rows(km, pattern, c) ==
    IF pattern = OneHot(0) THEN OkSome(km[1][c + 1])
    ELSE IF pattern = OneHot(1) THEN OkSome(km[2][c + 1])
    ELSE IF pattern = OneHot(2) THEN OkSome(km[3][c + 1])
    ELSE IF pattern = OneHot(3) THEN OkSome(km[4][c + 1])
    ELSE OkNone

\* mutant of key_is_pressed: the test inverted
key_is_pressed_inverted(pattern) == ~(pattern[1] \/ pattern[2] \/ pattern[3] \/ pattern[4])

\* key_is_pressed: row1 || row2 || row3 || row4
key_is_pressed(pattern) == pattern[1] \/ pattern[2] \/ pattern[3] \/ pattern[4]

\* what four row levels amount to: "low" when all are low, else "high"
Level(pattern) == IF \E i \in 1..4 : pattern[i] THEN "high" ELSE "low"

\* read(), called by key_is_pressed: one is_high() returned level v
KPreRead(v) ==
    /\ kpc = "pre"
    /\ Logged(<<"read", Len(rows), 0>>)
    /\ LET p == Append(rows, v)
       IN  IF Len(p) < 4
           THEN /\ rows' = p
                /\ UNCHANGED <<kpc, kidx, kres, kret, kpre>>
           ELSE IF key_is_pressed(p)
           THEN /\ kpre' = Level(p)
                /\ kpc' = "lower_all"
                /\ kidx' = 0
                /\ rows' = <<>>
                /\ UNCHANGED <<kres, kret>>
           ELSE /\ kpre' = Level(p)
                /\ KReturn(OkNone)
    /\ UNCHANGED <<col, keymap, kentry, khot, kfault, kfailed>>
    /\ UNCHANGED <<svars, pvars>>

\* an is_high() of the pre-check failed: self.key_is_pressed()? returns the error
KPreReadFail ==
    /\ kpc = "pre"
    /\ Logged(<<"read", Len(rows), 0>>)
    /\ Faulted("ReadPin")
    /\ KReturn(Err("ReadPin"))
    /\ UNCHANGED <<col, keymap, kentry, kpre, khot>>
    /\ UNCHANGED <<svars, pvars>>

\* set!(0 = col1, col2, col3, col4) before the scan, one pin
KLowerAll ==
    /\ kpc = "lower_all"
    /\ col' = [col EXCEPT ![kidx] = FALSE]
    /\ Logged(<<"set", kidx, 0>>)
    /\ IF kidx = 3
       THEN /\ kpc' = "energize"
            /\ kidx' = 0
       ELSE /\ kidx' = kidx + 1
            /\ UNCHANGED kpc
    /\ UNCHANGED <<keymap, rows, kres, kret, kentry, kpre, khot, kfault, kfailed>>
    /\ UNCHANGED <<svars, pvars>>

\* a set_low of that set! failed: its `?` returns from read_key
KLowerAllFail ==
    /\ kpc = "lower_all"
    /\ UNCHANGED col
    /\ Logged(<<"set", kidx, 0>>)
    /\ Faulted("WritePin")
    /\ KReturn(Err("WritePin"))
    /\ UNCHANGED <<keymap, kentry, kpre, khot>>
    /\ UNCHANGED <<svars, pvars>>

\* the closure returned r: read_key goes on to restore the columns
KClosureReturn(r) ==
    /\ kpc' = "restore"
    /\ kidx' = 0
    /\ rows' = <<>>
    /\ kres' = r
    /\ UNCHANGED kret

\* try_col!: set!(1 = self.$pin)
KEnergize ==
    /\ kpc = "energize"
    /\ col' = [col EXCEPT ![kidx] = TRUE]
    /\ Logged(<<"set", kidx, 1>>)
    /\ kpc' = "wait"
    /\ UNCHANGED <<keymap, kidx, rows, kres, kret, kentry, kpre, khot, kfault, kfailed>>
    /\ UNCHANGED <<svars, pvars>>

KEnergizeFail ==
    /\ kpc = "energize"
    /\ UNCHANGED col
    /\ Logged(<<"set", kidx, 1>>)
    /\ Faulted("WritePin")
    /\ KClosureReturn(Err("WritePin"))
    /\ UNCHANGED <<keymap, kentry, kpre, khot>>
    /\ UNCHANGED <<svars, pvars>>

\* mutant of wait: the rows are read without the settle wait
wait_skipped(failed) ==
    /\ kpc = "wait"
    /\ kpc' = "rows"
    /\ UNCHANGED <<col, keymap, kidx, rows, kres, kret, klog, kentry, kpre, khot, kfault, kfailed>>
    /\ UNCHANGED <<svars, pvars>>

\* try_col!: $self.wait($delay), that is delay.delay_us(500); the result of
\* delay_us is dropped, so the scan goes on whether the delay failed or not
wait(failed) ==
    /\ kpc = "wait"
    /\ Logged(<<"delay", 500, 0>>)
    /\ kfault' = IF failed THEN kfault \cup {"Delay"} ELSE kfault
    /\ kfailed' = IF failed THEN Append(kfailed, Len(klog) + 1) ELSE kfailed
    /\ kpc' = "rows"
    /\ UNCHANGED <<col, keymap, kidx, rows, kres, kret, kentry, kpre, khot>>
    /\ UNCHANGED <<svars, pvars>>

\* try_col!: self.try_rows($col)?, one is_high() of its read() returned v
KScanRead(v) ==
    /\ kpc = "rows"
    /\ Logged(<<"read", Len(rows), 0>>)
    /\ LET p == Append(rows, v)
           hot == {r \in 0..3 : p = OneHot(r)}
       IN  IF Len(p) < 4
           THEN /\ rows' = p
                /\ UNCHANGED <<kpc, kidx, kres, kret, khot>>
           ELSE /\ khot' = IF khot = <<>> /\ hot # {}
                           THEN <<CHOOSE r \in hot : TRUE, kidx>> ELSE khot
                /\ IF try_rows(keymap, p, kidx).tag = "Some"
                   THEN KClosureReturn(try_rows(keymap, p, kidx))
                   ELSE /\ kpc' = "lower"
                        /\ rows' = <<>>
                        /\ UNCHANGED <<kidx, kres, kret>>
    /\ UNCHANGED <<col, keymap, kentry, kpre, kfault, kfailed>>
    /\ UNCHANGED <<svars, pvars>>

\* mutant of KScanReadFail: the failed read is made again
KScanReadFail_retry ==
    /\ kpc = "rows"
    /\ Logged(<<"read", Len(rows), 0>>)
    /\ Faulted("ReadPin")
    /\ UNCHANGED <<kpc, kidx, rows, kres, kret>>
    /\ UNCHANGED <<col, keymap, kentry, kpre, khot>>
    /\ UNCHANGED <<svars, pvars>>

\* an is_high() of try_rows failed: the closure returns the error
KScanReadFail ==
    /\ kpc = "rows"
    /\ Logged(<<"read", Len(rows), 0>>)
    /\ Faulted("ReadPin")
    /\ KClosureReturn(Err("ReadPin"))
    /\ UNCHANGED <<col, keymap, kentry, kpre, khot>>
    /\ UNCHANGED <<svars, pvars>>

\* try_col!: set!(0 = self.$pin), then the next column, or Ok(None) after the last
KLower ==
    /\ kpc = "lower"
    /\ col' = [col EXCEPT ![kidx] = FALSE]
    /\ Logged(<<"set", kidx, 0>>)
    /\ IF kidx = 3 THEN KClosureReturn(OkNone)
       ELSE /\ kpc' = "energize"
            /\ kidx' = kidx + 1
            /\ UNCHANGED <<rows, kres, kret>>
    /\ UNCHANGED <<keymap, kentry, kpre, khot, kfault, kfailed>>
    /\ UNCHANGED <<svars, pvars>>

KLowerFail ==
    /\ kpc = "lower"
    /\ UNCHANGED col
    /\ Logged(<<"set", kidx, 0>>)
    /\ Faulted("WritePin")
    /\ KClosureReturn(Err("WritePin"))
    /\ UNCHANGED <<keymap, kentry, kpre, khot>>
    /\ UNCHANGED <<svars, pvars>>

\* set!(1 = col1, col2, col3, col4) after the closure, one pin; then `result`
KRestore ==
    /\ kpc = "restore"
    /\ col' = [col EXCEPT ![kidx] = TRUE]
    /\ Logged(<<"set", kidx, 1>>)
    /\ IF kidx = 3 THEN KReturn(kres)
       ELSE /\ kidx' = kidx + 1
            /\ UNCHANGED <<kpc, rows, kres, kret>>
    /\ UNCHANGED <<keymap, kentry, kpre, khot, kfault, kfailed>>
    /\ UNCHANGED <<svars, pvars>>

\* a set_high of that set! failed: its `?` returns from read_key
KRestoreFail ==
    /\ kpc = "restore"
    /\ UNCHANGED col
    /\ Logged(<<"set", kidx, 1>>)
    /\ Faulted("WritePin")
    /\ KReturn(Err("WritePin"))
    /\ UNCHANGED <<keymap, kentry, kpre, khot>>
    /\ UNCHANGED <<svars, pvars>>

KeypadNext ==
    \/ KCallInit
    \/ KCallReadKey
    \/ KInitSet
    \/ KInitSetFail
    \/ \E v \in BOOLEAN : KPreRead(v)
    \/ KPreReadFail
    \/ KLowerAll
    \/ KLowerAllFail
    \/ KEnergize
    \/ KEnergizeFail
    \/ \E failed \in BOOLEAN : wait(failed)
    \/ \E v \in BOOLEAN : KScanRead(v)
    \/ KScanReadFail
    \/ KLower
    \/ KLowerFail
    \/ KRestore
    \/ KRestoreFail

-----------------------------------------------------------------------------

\* rows handed to the row encoding; the first is `sq` of main.rs
RowInputs ==
    { [i \in 0..7 |-> 2 ^ i],
      [i \in 0..7 |-> IF i = 0 THEN 255 ELSE 0],
      [i \in 0..7 |-> IF i = 7 THEN 147 ELSE IF i = 0 THEN 15 ELSE 0],
      [i \in 0..7 |-> (37 * i + 11) % 256] }

\* the encoding while the drivers are exercised
ScaleUnused ==
    /\ sbyte = 0
    /\ scaled = <<>>
    /\ srow = ZeroRow
    /\ payload = <<>>

\* any byte and one of the rows, not yet encoded
ScaleInit ==
    /\ sbyte \in 0..255
    /\ scaled = <<>>
    /\ srow \in RowInputs
    /\ payload = <<>>

\* Self::scale(byte)
CallScale ==
    /\ scaled = <<>>
    /\ scaled' = scale(sbyte)
    /\ UNCHANGED <<sbyte, srow, payload>>
    /\ UNCHANGED <<svars, kvars>>

\* self.buf[yidx].map(Self::scale), transmuted to [u8; 16]
CallDraw ==
    /\ payload = <<>>
    /\ payload' = draw(srow)
    /\ UNCHANGED <<sbyte, scaled, srow>>
    /\ UNCHANGED <<svars, kvars>>

ScaleNext ==
    \/ CallScale
    \/ CallDraw

Init == ScreenInit /\ KeypadUnused /\ ScaleUnused

InitKeypad == ScreenUnused /\ KeypadInit /\ ScaleUnused

InitScale == ScreenUnused /\ KeypadUnused /\ ScaleInit

Next ==
    \/ CallInit
    \/ CallClear
    \/ \E c \in XorCalls : CallXor(c[1], c[2], c[3])
    \/ StepPin
    \/ StepSpi
    \/ StepBufXor
    \/ StepBufClear
    \/ Fail

Spec == Init /\ [][Next]_vars

SpecKeypad == InitKeypad /\ [][KeypadNext]_vars

SpecScale == InitScale /\ [][ScaleNext]_vars

-----------------------------------------------------------------------------
(* What a display call put on the wire, read off the primitives it ran *)

UnknownLevel == 0 - 1

\* the level the mode pin was last driven to before items[i]
RECURSIVE ModeBefore(_, _)
ModeBefore(items, i) ==
    IF i <= 1 THEN UnknownLevel
    ELSE IF items[i - 1].io = "mode" THEN items[i - 1].v
    ELSE ModeBefore(items, i - 1)

\* the bus writes among items, in order, each with the level of the mode pin
\* when it was made
BusOf(items) ==
    LET at == SelectSeq([i \in 1..Len(items) |-> i], LAMBDA i : items[i].io = "spi")
    IN  [k \in 1..Len(at) |-> <<ModeBefore(items, at[k]), items[at[k]].d>>]

\* the bus writes of the current call so far
Bus == BusOf(Done)

\* the low nibble of the column address the commands before bus[k] selected
RECURSIVE LowBefore(_, _)
LowBefore(bus, k) ==
    IF k <= 1 THEN 0
    ELSE IF bus[k - 1][1] = 0 /\ Len(bus[k - 1][2]) = 1 /\ bus[k - 1][2][1] \in 0..15
         THEN bus[k - 1][2][1]
    ELSE LowBefore(bus, k - 1)

\* the high part of the column address the commands before bus[k] selected
RECURSIVE HighBefore(_, _)
HighBefore(bus, k) ==
    IF k <= 1 THEN 0
    ELSE IF bus[k - 1][1] = 0 /\ Len(bus[k - 1][2]) = 1 /\ bus[k - 1][2][1] \in 16..23
         THEN bus[k - 1][2][1] - 16
    ELSE HighBefore(bus, k - 1)

\* the pixel-data writes among bus as <<column address, payload>>, in order
ColumnsOf(bus) ==
    LET at == SelectSeq([k \in 1..Len(bus) |-> k], LAMBDA k : bus[k][1] = 1)
    IN  [n \in 1..Len(at) |-> <<16 * HighBefore(bus, at[n]) + LowBefore(bus, at[n]), bus[at[n]][2]>>]

\* the columns the current call has written so far, in order
Columns == ColumnsOf(Bus)

Returned == ret \notin {"none", "running"}

Errors == {"Spi", "ChipSelect", "Mode", "Reset"}

ReadKeyReturned == kpc = "idle" /\ kret.tag \in {"None", "Some", "Err"}

-----------------------------------------------------------------------------
(* Claims *)

\* C1: after any read_key call entered with all four columns high, whatever
\* the outcome (key, no key, or an I/O error at any step), all four column
\* outputs are high when the call returns.
C1_ColumnsRestored == (ReadKeyReturned /\ kentry = AllHigh) => col = AllHigh

\* C2: every display call that asserted chip-select has chip-select high
\* again when it returns, on every exit path, the failed bus write included.
C2_ChipSelectReleased ==
    (Returned /\ \E i \in 1..(pc - 1) : Prog[i].io = "cs" /\ Prog[i].v = 0) => cs = 1

\* the scenario of C3: xor(0, 0, [0xFF]) has returned Ok on a display that
\* init or clear had just left all-zero
C3_Scenario ==
    /\ ret = "ok"
    /\ cur.op = "xor" /\ cur.x = 0 /\ cur.y = 0 /\ cur.sprite = <<255>>
    /\ prev.op \in {"init", "clear"}
    /\ cur.before = ZeroBuf

\* C3 as stated: the payload written at column addresses 62 and 63 is sixteen
\* bytes of 0xFF.
C3_SixteenFF ==
    C3_Scenario => Columns = <<<<62, [i \in 1..16 |-> 255]>>, <<63, [i \in 1..16 |-> 255]>>>>

\* C3 as amended: xor(0, 0, [0xFF]) on a freshly initialised or cleared
\* display writes, at column address 62 and again at 63, the 16-byte payload
\* 0xFF 0xFF followed by fourteen bytes 0x00 (the expansion of the whole
\* framebuffer row, of which only byte 0 is 0xFF), and the panel holds it at
\* both addresses.
C3_RowPayload ==
    C3_Scenario =>
        LET p == [i \in 1..16 |-> IF i <= 2 THEN 255 ELSE 0]
        IN  /\ Columns = <<<<62, p>>, <<63, p>>>>
            /\ (addr # UnknownAddr => panel[62] = p /\ panel[63] = p)

C3_Witness == C3_Scenario /\ addr # UnknownAddr /\ panel[62] # Zero16

\* C4 as stated: if the pre-check read some row high and the scan read
\* exactly row r high with column c energized, and no one-hot pattern on an
\* earlier column, read_key returns Some(keymap[r][c]) and nothing else.
C4_KeyOfFirstHot ==
    (ReadKeyReturned /\ kpre = "high" /\ khot # <<>>)
        => kret = OkSome(keymap[khot[1] + 1][khot[2] + 1])

\* C4 as amended: under the same conditions read_key returns
\* Some(keymap[r][c]), unless one of the four column writes that restore the
\* columns afterwards fails, in which case it returns the pin-write error; it
\* never returns None or another key.  With the default keymap, row 1 at
\* column 2 yields 0x6.
C4_KeyOfFirstHotOrWriteError ==
    (ReadKeyReturned /\ kpre = "high" /\ khot # <<>>)
        => /\ "WritePin" \notin kfault => kret = OkSome(keymap[khot[1] + 1][khot[2] + 1])
           /\ "WritePin" \in kfault =>
                 /\ kret = Err("WritePin")
                 /\ klog[Len(klog)][1] = "set" /\ klog[Len(klog)][3] = 1
           /\ (keymap = KEYMAP /\ khot = <<1, 2>> /\ kret.tag # "Err") => kret = OkSome(6)

C4_Witness ==
    /\ ReadKeyReturned /\ kpre = "high"
    /\ keymap = KEYMAP /\ khot = <<1, 2>> /\ kret = OkSome(6)

\* C5: when the idle pre-check reads all four rows low, read_key returns None
\* having made exactly the four row reads of the pre-check, no pin write (no
\* column changes level) and no settle delay.
C5_IdleReturnsNoneWithoutWrites ==
    (ReadKeyReturned /\ kpre = "low")
        => /\ kret = OkNone
           /\ klog = <<<<"read", 0, 0>>, <<"read", 1, 0>>, <<"read", 2, 0>>, <<"read", 3, 0>>>>
           /\ col = kentry

C5_Witness == ReadKeyReturned /\ kpre = "low" /\ kret = OkNone /\ Len(klog) = 4

\* a ^ b, bit by bit
XorOf(a, b) ==
    LET x(k) == (((a \div (2 ^ k)) + (b \div (2 ^ k))) % 2) * (2 ^ k)
    IN  x(0) + x(1) + x(2) + x(3) + x(4) + x(5) + x(6) + x(7)

SameCall == cur.op = prev.op /\ cur.x = prev.x /\ cur.y = prev.y /\ cur.sprite = prev.sprite

\* C6: xor is its own inverse on the framebuffer: two successive successful
\* calls xor(x, y, sprite) leave it as it was before the first.
C6_XorTwiceRestores ==
    (ret = "ok" /\ cur.op = "xor" /\ SameCall) => buf = prev.before

C6_Witness ==
    /\ ret = "ok" /\ cur.op = "xor" /\ SameCall
    /\ cur.x = 60 /\ cur.before # prev.before /\ prev.before # ZeroBuf

\* what a clear puts on the bus: for each column address 0..63 its low
\* nibble, its high part, then sixteen zero bytes of pixel data
ClearBus ==
    [i \in 1..192 |->
        LET a == (i - 1) \div 3
        IN  CASE (i - 1) % 3 = 0 -> <<0, <<a % 16>>>>
              [] (i - 1) % 3 = 1 -> <<0, <<16 + (a \div 16)>>>>
              [] (i - 1) % 3 = 2 -> <<1, [j \in 1..16 |-> 0]>>]

PanelZero == addr # UnknownAddr => \A a \in 0..63 : panel[a] = [j \in 1..16 |-> 0]

ZeroSprite == cur.op = "xor" /\ \A i \in 1..Len(cur.sprite) : cur.sprite[i] = 0

\* C7: a successful clear sets each column address 0..63 exactly once, writes
\* one all-zero 16-byte payload after each, and leaves the framebuffer
\* all-zero; a second clear, or an xor of an all-zero sprite, right after it
\* leaves the framebuffer and the panel all-zero; that is the state a
\* successful init leaves.
C7_ClearIsCompleteAndIdempotent ==
    /\ (ret = "ok" /\ cur.op = "clear") =>
          /\ Bus = ClearBus
          /\ Columns = [i \in 1..64 |-> <<i - 1, [j \in 1..16 |-> 0]>>]
          /\ buf = ZeroBuf
          /\ PanelZero
    /\ (ret = "ok" /\ prev.op = "clear" /\ (cur.op = "clear" \/ ZeroSprite)) =>
          /\ buf = ZeroBuf
          /\ PanelZero
    /\ (ret = "ok" /\ cur.op = "init") =>
          /\ buf = ZeroBuf
          /\ addr # UnknownAddr
          /\ PanelZero

C7_Witness ==
    /\ ret = "ok" /\ ZeroSprite /\ prev.op = "clear" /\ prev.before # ZeroBuf
    /\ addr # UnknownAddr

\* the row a sprite byte s composited at logical x must leave, given the row
\* before
Composited(new, old, x, s) ==
    LET co == x % 8
        bi == (x % 64) \div 8
    IN  \A j \in 0..7 :
            new[j] = IF co = 0
                     THEN IF j = bi THEN XorOf(old[j], s) ELSE old[j]
                     ELSE IF j = bi THEN XorOf(old[j], s \div (2 ^ co))
                     ELSE IF j = (bi + 1) % 8
                          THEN XorOf(old[j], (s * (2 ^ (8 - co))) % 256)
                     ELSE old[j]

\* C8: a sprite byte s composited at x on row r changes framebuffer[r][bi] by
\* XOR with s when x mod 8 = 0, and otherwise framebuffer[r][bi] by XOR with
\* s >> co and framebuffer[r][(bi + 1) mod 8] by XOR with (s << (8 - co)) mod
\* 256, where co = x mod 8 and bi = (x mod 64) / 8; nothing else changes; at
\* x = 60 the bytes touched are byte columns 7 and 0.  Checked once every
\* row the call reaches has been composited: when it returned Ok, or stopped
\* at a row outside the framebuffer.
C8_RowUpdate ==
    (cur.op = "xor" /\ ret \in {"ok", "panic"}) =>
        /\ \A r \in 0..31 :
              IF r - cur.y + 1 \in 1..Len(cur.sprite)
              THEN Composited(buf[r], cur.before[r], cur.x, cur.sprite[r - cur.y + 1])
              ELSE buf[r] = cur.before[r]
        /\ cur.x = 60 => \A r \in 0..31 : \A j \in 1..6 : buf[r][j] = cur.before[r][j]

C8_Witness ==
    /\ cur.op = "xor" /\ ret = "ok" /\ cur.x = 60
    /\ buf[30][7] # cur.before[30][7]
    /\ buf[30][0] # cur.before[30][0]

\* the reset pin writes of the current call so far
Resets == SelectSeq(Done, LAMBDA it : it.io = "reset")

\* C9: a successful init performs, in this order, reset high, low, high; set
\* display start line 0, set contrast 0x80, vertical addressing, oscillator
\* frequency 0x41, pre-charge period 0x22, VCOM deselect level 0x35, display
\* offset 0x60; the full clear of the panel; and display-on as the last
\* transaction.
C9_InitSequence ==
    (ret = "ok" /\ cur.op = "init") =>
        /\ Len(Done) >= 3
        /\ <<Done[1].io, Done[2].io, Done[3].io>> = <<"reset", "reset", "reset">>
        /\ <<Done[1].v, Done[2].v, Done[3].v>> = <<1, 0, 1>>
        /\ Len(Resets) = 3
        /\ Bus = << <<0, <<220, 0>>>>, <<0, <<129, 128>>>>, <<0, <<33>>>>,
                    <<0, <<213, 65>>>>, <<0, <<217, 34>>>>, <<0, <<216, 53>>>>,
                    <<0, <<211, 96>>>> >>
                 \o ClearBus
                 \o << <<0, <<175>>>> >>

C9_Witness == ret = "ok" /\ cur.op = "init" /\ reset = 1 /\ Len(Bus) = 200

\* C10: if a step of init fails, init returns that step's error at once and
\* issues no later step: no step is enabled any more, and the display-on
\* command is on the bus only when the failed step is the one after it, the
\* closing chip-select write.
C10_InitAbortsOnFailure ==
    (cur.op = "init" /\ nfaults > 0) =>
        /\ ret \in Errors
        /\ pc <= Len(Prog)
        /\ ret = CASE Prog[pc].io = "reset" -> "Reset"
                   [] Prog[pc].io = "mode" -> "Mode"
                   [] Prog[pc].io = "cs" -> "ChipSelect"
                   [] Prog[pc].io = "spi" -> "Spi"
                   [] OTHER -> "none"
        /\ (\E i \in 1..Len(Bus) : Bus[i] = <<0, <<175>>>>) =>
              (pc = Len(Prog) /\ Prog[pc].io = "cs")
        /\ ~ENABLED Next

C10_Witness == cur.op = "init" /\ ret = "Spi" /\ Len(Bus) = 100 /\ nfaults = 1

\* the opcodes of the commands that take one parameter byte
Parameterized == {220, 129, 211, 213, 217, 216}

\* C11: whenever bytes go on the bus chip-select is low and the mode line is
\* low for a command (with its parameter) and high for pixel data; a
\* parameterized command sends opcode and parameter in one chip-select
\* assertion; after every transaction that completed without error
\* chip-select is high again.
C11_Framing ==
    /\ LET P == Prog
       IN  /\ (Running /\ P[pc].io = "spi") =>
                 /\ cs = 0
                 /\ Len(P[pc].d) \in {1, 2, 16}
                 /\ Len(P[pc].d) = 16 => mode = 1
                 /\ Len(P[pc].d) \in {1, 2} => mode = 0
                 /\ Len(P[pc].d) = 2 <=> (mode = 0 /\ P[pc].d[1] \in Parameterized)
                 /\ pc > 1 /\ P[pc - 1].io = "cs" /\ P[pc - 1].v = 0
                 /\ pc < Len(P) /\ P[pc + 1].io = "cs" /\ P[pc + 1].v = 1
           /\ (pc > 1 /\ pc - 1 <= Len(P) /\ P[pc - 1].io = "cs" /\ P[pc - 1].v = 1) => cs = 1
    /\ (ret = "ok" /\ cur.op \in {"init", "clear"}) => cs = 1
    /\ (ret = "ok" /\ cur.op = "xor" /\ cur.sprite # <<>>) => cs = 1

C11_Witness ==
    /\ pc > 2 /\ ret = "running" /\ cs = 1 /\ mode = 0
    /\ Prog[pc - 1].io = "cs" /\ Prog[pc - 2].io = "spi" /\ Prog[pc - 2].d = <<129, 128>>

\* the failed pin operations of the current call, as positions in klog
PinFailures == SelectSeq(kfailed, LAMBDA i : klog[i][1] # "delay")

\* a pin operation of the resolving scan has failed in the current read_key
ScanAborted == kpre = "high" /\ PinFailures # <<>>

\* C12: a failed pin write or pin read during the resolving scan aborts it:
\* after the failing operation no row is read, no settle wait is made and no
\* column is energized for testing; the only operations that may follow are
\* the restoring writes, columns 0, 1, 2, 3 driven high once each in that
\* order; read_key returns an I/O error, never Some or None.
C12_ScanAbortsOnPinFailure ==
    ScanAborted =>
        LET f == PinFailures[1]
        IN  /\ f > 4
            /\ kpc \in {"restore", "idle"}
            /\ Len(klog) - f <= 4
            /\ \A j \in (f + 1)..Len(klog) : klog[j] = <<"set", j - f - 1, 1>>
            /\ f <= 8 => Len(klog) = f
            /\ kpc = "restore" => kres.tag = "Err" /\ kres.err \in {"WritePin", "ReadPin"}
            /\ kpc = "idle" => kret.tag = "Err" /\ kret.err \in {"WritePin", "ReadPin"}
            /\ kret.tag \notin {"Some", "None"}

\* C12 as stated: after the failing operation no column is energized (driven
\* high) at all.
C12_NoColumnEnergizedAfterFailure ==
    ScanAborted =>
        /\ \A j \in (PinFailures[1] + 1)..Len(klog) : ~(klog[j][1] = "set" /\ klog[j][3] = 1)
        /\ kret.tag \notin {"Some", "None"}

C12_Witness ==
    /\ ReadKeyReturned /\ ScanAborted /\ kret = Err("ReadPin")
    /\ Len(kfailed) = 1 /\ kfailed[1] > 15 /\ klog[kfailed[1]][1] = "read"
    /\ col = AllHigh

\* the failed settle waits of the current call, as positions in klog
DelayFailures == SelectSeq(kfailed, LAMBDA i : klog[i][1] = "delay")

\* C13: a failure of the delay capability during a settle wait is propagated
\* at once: no row is read after the failed wait and read_key returns the
\* delay-failure error.
C13_DelayFailurePropagates ==
    DelayFailures # <<>> =>
        /\ \A j \in (DelayFailures[1] + 1)..Len(klog) : klog[j][1] # "read"
        /\ ReadKeyReturned => kret = Err("Delay")

\* the operations of a read_key up to the scan: the four row reads of the
\* pre-check, then the four columns driven low
ScanPrelude ==
    << <<"read", 0, 0>>, <<"read", 1, 0>>, <<"read", 2, 0>>, <<"read", 3, 0>>,
       <<"set", 0, 0>>, <<"set", 1, 0>>, <<"set", 2, 0>>, <<"set", 3, 0>> >>

\* the operations of testing column c: drive it high, wait 500 microseconds,
\* read the four rows, drive it low
ColumnTest(c) ==
    << <<"set", c, 1>>, <<"delay", 500, 0>>,
       <<"read", 0, 0>>, <<"read", 1, 0>>, <<"read", 2, 0>>, <<"read", 3, 0>>,
       <<"set", c, 0>> >>

\* columns 0..n-1 tested in order, each to the end
ColumnTests(n) == [i \in 1..(7 * n) |-> ColumnTest((i - 1) \div 7)[((i - 1) % 7) + 1]]

\* the first n restoring writes
Restoring(n) == [i \in 1..n |-> <<"set", i - 1, 1>>]

OnlyColumnHigh(c) == [i \in 0..3 |-> i = c]

\* C14: the resolving scan is a single pass.  While it runs, the operations
\* issued so far are the prelude (columns driven low), the complete tests of
\* columns 0..c-1 in order, and the test of column c up to the current step;
\* rows are read only after the 500 microsecond wait and with column c the
\* only one high; a column without a one-hot pattern is driven low before
\* the next is energized; the scan ends at the first one-hot column, after
\* which only the restoring writes follow.  When no pin operation fails,
\* read_key returns None if no column matched and the key otherwise; when
\* one fails it returns the error.
C14_SinglePass ==
    /\ kpc \in {"energize", "wait", "rows", "lower"} =>
          /\ kidx \in 0..3
          /\ khot = <<>>
          /\ klog = ScanPrelude \o ColumnTests(kidx)
                    \o SubSeq(ColumnTest(kidx), 1,
                              CASE kpc = "energize" -> 0
                                [] kpc = "wait" -> 1
                                [] kpc = "rows" -> 2 + Len(rows)
                                [] kpc = "lower" -> 6)
          /\ col = IF kpc = "energize" THEN [i \in 0..3 |-> FALSE] ELSE OnlyColumnHigh(kidx)
    /\ (kpc = "restore" /\ kres.tag = "Some") =>
          /\ khot # <<>>
          /\ klog = ScanPrelude \o ColumnTests(khot[2])
                    \o SubSeq(ColumnTest(khot[2]), 1, 6) \o Restoring(kidx)
    /\ (kpc = "restore" /\ kres.tag = "None") =>
          /\ khot = <<>>
          /\ klog = ScanPrelude \o ColumnTests(4) \o Restoring(kidx)
    /\ (ReadKeyReturned /\ kpre = "high" /\ PinFailures = <<>>) =>
          IF khot = <<>>
          THEN /\ kret = OkNone
               /\ klog = ScanPrelude \o ColumnTests(4) \o Restoring(4)
          ELSE /\ kret.tag = "Some"
               /\ klog = ScanPrelude \o ColumnTests(khot[2])
                         \o SubSeq(ColumnTest(khot[2]), 1, 6) \o Restoring(4)
    /\ (ReadKeyReturned /\ kpre = "high" /\ PinFailures # <<>>) => kret.tag = "Err"

\* the rows of all four columns have been read and none was one-hot
NoColumnMatched ==
    /\ kpre = "high"
    /\ khot = <<>>
    /\ Len(klog) >= 35
    /\ SubSeq(klog, 1, 35) = ScanPrelude \o ColumnTests(3) \o SubSeq(ColumnTest(3), 1, 6)
    /\ \A i \in 1..Len(PinFailures) : PinFailures[i] > 35

\* C14 as stated: if no column matches, read_key returns None.
C14_NoMatchReturnsNone == (ReadKeyReturned /\ NoColumnMatched) => kret = OkNone

C14_Witness ==
    /\ ReadKeyReturned /\ NoColumnMatched /\ PinFailures = <<>>
    /\ kret = OkNone /\ Len(klog) = 40 /\ col = AllHigh

\* the 16-byte panel image of a framebuffer row, bit by bit: in the 16-bit
\* word made of bytes 2i (low) and 2i+1 (high), bits 2k and 2k+1 are bit
\* 7-k of row byte i
PayloadOf(row) ==
    [j \in 1..16 |->
        LET byte == row[(j - 1) \div 2]
            bit(m) == (byte \div (2 ^ (7 - ((8 * ((j - 1) % 2) + m) \div 2)))) % 2
        IN  bit(0) + 2 * bit(1) + 4 * bit(2) + 8 * bit(3)
            + 16 * bit(4) + 32 * bit(5) + 64 * bit(6) + 128 * bit(7)]

\* the framebuffer updates and the bus writes of the current call so far
BufAndBus == SelectSeq(Done, LAMBDA it : it.io \in {"bufxor", "spi"})

\* the six bus writes that render a row at physical column phys with payload p
Rendering(phys, p) ==
    << <<0, <<phys % 16>>>>, <<0, <<16 + (phys \div 16)>>>>, <<1, p>>,
       <<0, <<(phys + 1) % 16>>>>, <<0, <<16 + ((phys + 1) \div 16)>>>>, <<1, p>> >>

\* C15: for each sprite byte of a successful xor, after the updates of row
\* `row` and before anything of the next sprite byte, the row is rendered by
\* exactly: column address phys = 2 * (31 - (row mod 32)) set by two simple
\* commands (phys & 0x0F, then 0x10 | (phys >> 4)), the row's 16-byte payload
\* as pixel data, column address phys + 1 set the same way, the same payload
\* again; every address set is in 0..63.
C15_RowRendering ==
    (ret = "ok" /\ cur.op = "xor") =>
        LET n == Len(cur.sprite)
            nu == IF cur.x % 8 = 0 THEN 1 ELSE 2
        IN  /\ Len(BufAndBus) = n * (nu + 6)
            /\ Len(Bus) = 6 * n
            /\ \A i \in 1..n :
                  LET row == cur.y + i - 1
                      phys == 2 * (31 - (row % 32))
                      base == (i - 1) * (nu + 6)
                  IN  /\ \A j \in 1..nu :
                            /\ BufAndBus[base + j].io = "bufxor"
                            /\ BufAndBus[base + j].v = row
                      /\ \A j \in (nu + 1)..(nu + 6) : BufAndBus[base + j].io = "spi"
                      /\ SubSeq(Bus, 6 * (i - 1) + 1, 6 * i) = Rendering(phys, PayloadOf(buf[row]))
                      /\ phys \in 0..62

C15_Witness ==
    /\ ret = "ok" /\ cur.op = "xor" /\ cur.sprite = <<147, 15>>
    /\ Len(Bus) = 12 /\ Bus[1] = <<0, <<2>>>> /\ Bus[7] = <<0, <<0>>>>
    /\ buf[30] # ZeroRow /\ buf[31] # ZeroRow

\* C16: for every byte b, scale(b) returns two bytes [lo, hi] such that in
\* the word lo + 256 * hi bits 2k and 2k+1 both equal bit 7-k of b, for k in
\* 0..7 (the reversed nibble 0001 expands to 00000011); the 16-byte payload of
\* a row is the concatenation of scale(row[i]) for i = 0..7 in order.
C16_BitReverseAndDouble ==
    /\ scaled # <<>> =>
          /\ Len(scaled) = 2
          /\ scaled[1] \in 0..255 /\ scaled[2] \in 0..255
          /\ LET w == scaled[1] + 256 * scaled[2]
             IN  \A k \in 0..7 :
                    /\ (w \div (2 ^ (2 * k))) % 2 = (sbyte \div (2 ^ (7 - k))) % 2
                    /\ (w \div (2 ^ (2 * k + 1))) % 2 = (sbyte \div (2 ^ (7 - k))) % 2
          /\ sbyte = 128 => scaled = <<3, 0>>
    /\ payload # <<>> =>
          /\ Len(payload) = 16
          /\ \A i \in 0..7 :
                LET w == payload[2 * i + 1] + 256 * payload[2 * i + 2]
                IN  \A k \in 0..7 :
                       /\ (w \div (2 ^ (2 * k))) % 2 = (srow[i] \div (2 ^ (7 - k))) % 2
                       /\ (w \div (2 ^ (2 * k + 1))) % 2 = (srow[i] \div (2 ^ (7 - k))) % 2
          /\ payload = PayloadOf(srow)

C16_Witness ==
    /\ sbyte = 128 /\ scaled = <<3, 0>>
    /\ srow = [i \in 0..7 |-> 2 ^ i] /\ payload # <<>> /\ payload[1] = 0 /\ payload[2] = 192

\* the framebuffer rows the current xor call is given to composite
SpriteRows == cur.y..(cur.y + Len(cur.sprite) - 1)

\* C17: xor neither wraps nor clamps the row index: sprite byte i goes to row
\* y + i.  With y + len <= 32 every framebuffer access is within rows 0..31
\* and byte columns 0..7 and the call never faults; when some y + i >= 32 the
\* access to that row is outside the framebuffer and the call stops there in
\* a fault state: rows y..31 have been composited and rendered, the row
\* (y + i) mod 32 is untouched and nothing is sent for it.
C17_NoWrapNoClamp ==
    cur.op = "xor" =>
        /\ \A r \in 0..31 : buf[r] # cur.before[r] => r \in SpriteRows
        /\ (ret = "running" /\ pc = 1) =>
              LET updates == SelectSeq(Prog, LAMBDA it : it.io = "bufxor")
              IN  \A i \in 1..Len(updates) :
                     /\ updates[i].v \in SpriteRows
                     /\ updates[i].d[1] \in 0..7
                     /\ cur.y + Len(cur.sprite) <= 32 => updates[i].v \in 0..31
        /\ cur.y + Len(cur.sprite) <= 32 => ret # "panic"
        /\ cur.y + Len(cur.sprite) > 32 => ret # "ok"
        /\ ret = "panic" =>
              /\ Next_item.io = "bufxor"
              /\ Next_item.v = 32
              /\ cur.y <= 32
              /\ Len(Bus) = 6 * (32 - cur.y)
              /\ buf[Next_item.v % 32] = cur.before[Next_item.v % 32]
              /\ ~ENABLED Next

C17_Witness ==
    /\ ret = "panic" /\ cur.op = "xor" /\ cur.y = 31 /\ cur.sprite = <<129, 36>>
    /\ buf[31] # cur.before[31]
    /\ buf[0] # ZeroRow
    /\ Len(Bus) = 6

\* C18: after a successful init and any sequence of successful clear and xor
\* calls, for every row r the panel memory at column addresses 2 * (31 - r)
\* and 2 * (31 - r) + 1 is the 16-byte payload of framebuffer row r.
C18_PanelMatchesFramebuffer ==
    (ret = "ok" /\ nfaults = 0) =>
        /\ addr # UnknownAddr
        /\ \A r \in 0..31 :
              /\ panel[2 * (31 - r)] = PayloadOf(buf[r])
              /\ panel[2 * (31 - r) + 1] = PayloadOf(buf[r])

C18_Witness ==
    /\ ret = "ok" /\ nfaults = 0 /\ cur.op = "xor" /\ prev.op = "xor"
    /\ buf[0] # ZeroRow /\ buf[30] # ZeroRow
    /\ panel[62] = PayloadOf(buf[0]) /\ panel[2] = PayloadOf(buf[30])

\* the framebuffer updates the current call has made so far
Updates == SelectSeq(Done, LAMBDA it : it.io = "bufxor")

\* C19: when xor returns an I/O error while rendering sprite byte i, rows
\* y..y+i are XOR-updated, the rows after them are as before the call and
\* nothing is rolled back; when clear returns an I/O error the framebuffer
\* is as it was before the call.
C19_StateAfterFailure ==
    /\ (cur.op = "xor" /\ ret \in Errors) =>
          LET nu == IF cur.x % 8 = 0 THEN 1 ELSE 2
              i == (Len(Updates) \div nu) - 1
          IN  /\ Len(Updates) % nu = 0
              /\ i \in 0..(Len(cur.sprite) - 1)
              /\ Prog[pc].io \in {"cs", "mode", "spi"}
              /\ \A r \in 0..31 :
                    IF r \in cur.y..(cur.y + i)
                    THEN Composited(buf[r], cur.before[r], cur.x, cur.sprite[r - cur.y + 1])
                    ELSE buf[r] = cur.before[r]
    /\ (cur.op = "clear" /\ ret \in Errors) => buf = cur.before

C19_Witness ==
    /\ cur.op = "xor" /\ ret = "Spi" /\ cur.sprite = <<147, 15>>
    /\ Len(Updates) = 2
    /\ buf[30] # cur.before[30] /\ buf[31] = cur.before[31]

=============================================================================
